---- MODULE Spec2Model ----
(***************************************************************************)
(* Model of working_api.js: the POST / handler of the face-matching        *)
(* service, with its helpers loadImage and loadLabeledImages.              *)
(*                                                                         *)
(* One request is followed from its arrival to its response and beyond     *)
(* (promises that are still pending when the response is sent keep         *)
(* running).  The handler runs on the Node.js event loop: every action is  *)
(* either a completion of an external asynchronous call (model load,       *)
(* fetch, decode, detection) or a continuation of the handler after an     *)
(* await.  Continuations are microtasks, so a completion is taken only     *)
(* when no continuation of the handler is runnable.                        *)
(***************************************************************************)
EXTENDS Integers, Sequences, FiniteSets, TLC

\* ------------------------------------------------------------------ bounds
MaxEntries == 2      \* longest dataset array
MaxFaces == 2        \* most faces the detector finds in the group image

\* -------------------------------------------------------- JavaScript values
Undef == [t |-> "undefined"]
Null == [t |-> "null"]
Str(s) == [t |-> "string", s |-> s]
Num(n) == [t |-> "number", n |-> n]
Arr(a) == [t |-> "array", a |-> a]
Obj(id, imglink) == [t |-> "object", id |-> id, imglink |-> imglink]

\* !v is false
Truthy(v) ==
  CASE v.t = "undefined" -> FALSE
    [] v.t = "null" -> FALSE
    [] v.t = "string" -> v.s # ""
    [] v.t = "number" -> v.n # 0
    [] OTHER -> TRUE

\* Array.isArray(v)
IsArray(v) == v.t = "array"

\* const { id, imglink } = data  throws a TypeError on null and undefined
DestructureThrows(data) == data.t \in {"null", "undefined"}

\* the property `name` of data, as destructuring reads it
GetProp(data, name) ==
  IF data.t = "object" THEN (IF name = "id" THEN data.id ELSE data.imglink)
  ELSE Undef

Digit(d) ==
  CASE d = 0 -> "0" [] d = 1 -> "1" [] d = 2 -> "2" [] d = 3 -> "3"
    [] d = 4 -> "4" [] d = 5 -> "5" [] d = 6 -> "6" [] d = 7 -> "7"
    [] d = 8 -> "8" [] d = 9 -> "9"

RECURSIVE NumToString(_)
NumToString(n) ==
  IF n < 10 THEN Digit(n) ELSE NumToString(n \div 10) \o Digit(n % 10)

\* id.toString() of a truthy string or number
toString(v) == IF v.t = "string" THEN v.s ELSE NumToString(v.n)

\* --------------------------------------------------------- request inputs
URL == "http://x/img.jpg"

\* values a dataset entry's id and imglink take in the request body
IdValues == {Undef, Num(0), Str("alice"), Num(7)}
LinkValues == {Undef, Str(""), Str(URL)}

\* dataset entries: objects, and the JSON values that are no objects
EntryValues ==
  {Obj(id, link) : id \in IdValues, link \in LinkValues} \cup {Null, Str("zed")}

RECURSIVE SeqsUpTo(_, _)
SeqsUpTo(S, n) ==
  IF n = 0 THEN {<<>>}
  ELSE LET shorter == SeqsUpTo(S, n - 1)
       IN shorter \cup {Append(q, x) : q \in {r \in shorter : Len(r) = n - 1}, x \in S}

\* req.body.dataset: absent, a non-array, or an array of entries
DatasetValues ==
  {Undef, Null, Str("people"), Obj(Str("alice"), Str(URL))}
    \cup {Arr(a) : a \in SeqsUpTo(EntryValues, MaxEntries)}

\* req.body.group_img: absent, empty, or a URL
GroupImgValues == {Undef, Str(""), Str(URL)}

\* ------------------------------------------------- the external library
Nets == {"faceRecognitionNet", "faceLandmark68Net", "ssdMobilenetv1"}

\* face descriptors, as points on a line measured in tenths
Descriptors == {0, 5, 10}

\* what fetch(url) settles to: a response (ok or not), or a rejection
FetchOutcomes ==
  { [kind |-> "response", ok |-> TRUE, statusText |-> "OK"],
    [kind |-> "response", ok |-> FALSE, statusText |-> "Not Found"],
    [kind |-> "error", message |-> "connect ECONNREFUSED"] }

\* what response.buffer() followed by canvas.loadImage(buffer) settles to
DecodeOutcomes ==
  { [kind |-> "image"], [kind |-> "error", message |-> "Unsupported image type"] }

\* what detectSingleFace(img)...withFaceDescriptor() settles to
SingleFaceOutcomes ==
  { [kind |-> "face", descriptor |-> d] : d \in Descriptors }
    \cup { [kind |-> "none"], [kind |-> "error", message |-> "detection failed"] }

\* what detectAllFaces(image)...withFaceDescriptors() settles to
AllFacesOutcomes ==
  { [kind |-> "faces", detections |-> ds] : ds \in SeqsUpTo(Descriptors, MaxFaces) }
    \cup { [kind |-> "error", message |-> "detection failed"] }

\* new faceapi.LabeledFaceDescriptors(label, [descriptor])
LabeledFaceDescriptors(label, descriptors) ==
  [label |-> label, descriptors |-> descriptors]

\* ---- faceapi.FaceMatcher (external; behaviour as the specification gives it)
distanceThreshold == 6      \* 0.6, in tenths

\* euclidean distance of two descriptors
euclideanDistance(a, b) == IF a < b THEN b - a ELSE a - b

RECURSIVE SumDistances(_, _)
SumDistances(query, descriptors) ==
  IF descriptors = <<>> THEN 0
  ELSE euclideanDistance(query, Head(descriptors))
         + SumDistances(query, Tail(descriptors))

computeMeanDistance(query, descriptors) ==
  SumDistances(query, descriptors) \div Len(descriptors)

FaceMatch(label, distance) == [label |-> label, distance |-> distance]

\* the nearest labeled descriptor; of two equally near ones the later
RECURSIVE matchDescriptor(_, _, _)
matchDescriptor(labeled, query, best) ==
  IF labeled = <<>> THEN best
  ELSE LET curr == FaceMatch(Head(labeled).label,
                             computeMeanDistance(query, Head(labeled).descriptors))
       IN matchDescriptor(Tail(labeled), query,
                          IF best.distance < curr.distance THEN best ELSE curr)

findBestMatch(labeled, query) ==
  LET first == FaceMatch(Head(labeled).label,
                         computeMeanDistance(query, Head(labeled).descriptors))
      bestMatch == matchDescriptor(Tail(labeled), query, first)
  IN IF bestMatch.distance < distanceThreshold THEN bestMatch
     ELSE FaceMatch("unknown", bestMatch.distance)

\* ------------------------------------------------------------------ state
VARIABLES
  body,                    \* req.body: [dataset, group_img]
  pc,                      \* where the handler is suspended
  nets,                    \* each model's loadFromDisk: idle, loading, loaded, failed
  modelError,              \* the rejection Promise.all of the loads settles to
  entries,                 \* per dataset entry, the promise of its map callback
  labeledFaceDescriptors,  \* what loadLabeledImages returned (undefined before)
  groupResponse,           \* what fetch(group_img) settled to
  detections,              \* the faces detected in the group image (undefined before)
  groupImageError,         \* the message of the error the group-image catch caught
  sent,                    \* the responses written to res, in order
  fetchCalls,              \* calls of fetch so far
  detectCalls              \* calls of detectSingleFace / detectAllFaces so far

vars == <<body, pc, nets, modelError, entries, labeledFaceDescriptors,
          groupResponse, detections, groupImageError, sent, fetchCalls, detectCalls>>

NoError == ""
NoOutcome == [kind |-> "pending"]

\* the promise of one entry's callback: pending at an await, or settled;
\* detection is what the detection on the entry's image settled to
Promise(st, value, detection) == [st |-> st, value |-> value, detection |-> detection]

Init ==
  /\ body \in [dataset : DatasetValues, group_img : GroupImgValues]
  /\ pc = "received"
  /\ nets = [n \in Nets |-> "idle"]
  /\ modelError = NoError
  /\ entries = <<>>
  /\ labeledFaceDescriptors = Undef
  /\ groupResponse = NoOutcome
  /\ detections = Undef
  /\ groupImageError = NoError
  /\ sent = <<>>
  /\ fetchCalls = 0
  /\ detectCalls = 0

\* ------------------------------------------------------------- responses
\* res.status(status).json(json): the body as JSON.stringify writes it
Response(status, json) == [status |-> status, body |-> json]

\* JSON.stringify leaves out a property whose value is undefined
InvalidDatasetBody(dataset) ==
  IF dataset = Undef THEN [error |-> "Invalid dataset format"]
  ELSE [error |-> "Invalid dataset format", received |-> dataset]

ErrorBody(error) == [error |-> error]
ErrorMessageBody(error, message) == [error |-> error, message |-> message]

SuccessBody(results) ==
  [success |-> TRUE,
   matches |-> [i \in 1..Len(results) |->
                  [label |-> results[i].label, distance |-> results[i].distance]]]

\* ----------------------------------------------------------- loadImage
\* mutant of FetchOk: the status of the response is not looked at
FetchOkAnyResponse(outcome) == outcome.kind = "response"

\* fetch settled to a response with response.ok
FetchOk(outcome) == outcome.kind = "response" /\ outcome.ok

\* the error loadImage throws when the fetch did not give an ok response
FetchError(outcome) ==
  IF outcome.kind = "error" THEN outcome.message
  ELSE "Failed to fetch image: " \o outcome.statusText

\* --------------------------------------------------- loadLabeledImages
TypeErrorMessage == "Cannot destructure property 'id' of 'data'"

\* if (!id || !imglink)
InvalidEntry(data) ==
  ~Truthy(GetProp(data, "id")) \/ ~Truthy(GetProp(data, "imglink"))

\* the map callback on one entry, up to its first await
StartEntry(data) ==
  IF DestructureThrows(data) THEN Promise("rejected", Undef, NoOutcome)
  ELSE IF InvalidEntry(data) THEN Promise("fulfilled", Null, NoOutcome)
  ELSE Promise("fetching", Undef, NoOutcome)

\* mutant of AllFulfilled: the first callback to return settles the batch
AnyFulfilled(ps) == ps = <<>> \/ \E i \in 1..Len(ps) : ps[i].st = "fulfilled"

\* Promise.all(...) of the callbacks' promises
AnyRejected(ps) == \E i \in 1..Len(ps) : ps[i].st = "rejected"
AllFulfilled(ps) == \A i \in 1..Len(ps) : ps[i].st = "fulfilled"

\* mutant of FilterNotNull: of the descriptors under one label only the
\* first is kept
RECURSIVE FilterFirstPerLabel(_)
FilterFirstPerLabel(values) ==
  IF values = <<>> THEN <<>>
  ELSE LET front == SubSeq(values, 1, Len(values) - 1)
           last == values[Len(values)]
       IN IF last = Null \/ \E k \in 1..Len(front) :
                                front[k] # Null /\ front[k].label = last.label
            THEN FilterFirstPerLabel(front)
          ELSE FilterFirstPerLabel(front) \o <<last>>

\* labeledDescriptors.filter((desc) => desc !== null)
RECURSIVE FilterNotNull(_)
FilterNotNull(values) ==
  IF values = <<>> THEN <<>>
  ELSE IF Head(values) # Null THEN <<Head(values)>> \o FilterNotNull(Tail(values))
  ELSE FilterNotNull(Tail(values))

validDescriptors(ps) == FilterNotNull([i \in 1..Len(ps) |-> ps[i].value])

\* -------------------------------------------------------- the event loop
\* mutant of ModelsLoaded: the first load to finish resolves the wait
AnyModelLoaded(ns) == \E n \in Nets : ns[n] = "loaded"

\* Promise.all of the three loads: rejected by the first failure
ModelsRejected(ns) == \E n \in Nets : ns[n] = "failed"
ModelsLoaded(ns) == \A n \in Nets : ns[n] = "loaded"

\* a continuation of the handler is queued as a microtask
HandlerRunnable ==
  \/ pc = "received"
  \/ pc = "awaitModels" /\ (ModelsRejected(nets) \/ ModelsLoaded(nets))
  \/ pc = "awaitLabeled" /\ (AnyRejected(entries) \/ AllFulfilled(entries))

Respond(response) == sent' = Append(sent, response)

\* mutant of InvalidDataset: the Array.isArray test is left out
InvalidDatasetFalsyOnly(dataset) == ~Truthy(dataset)

\* if (!dataset || !Array.isArray(dataset))
InvalidDataset(dataset) == ~Truthy(dataset) \/ ~IsArray(dataset)

\* mutant of MissingGroupImg: only an absent group_img is refused
MissingGroupImgAbsentOnly(group_img) == group_img = Undef

\* if (!group_img)
MissingGroupImg(group_img) == ~Truthy(group_img)

\* The handler from its entry to its first await: validation, and the call
\* of the three loads.
HandleRequest ==
  /\ pc = "received"
  /\ IF InvalidDataset(body.dataset)
       THEN /\ Respond(Response(400, InvalidDatasetBody(body.dataset)))
            /\ pc' = "done"
            /\ nets' = nets
     ELSE IF MissingGroupImg(body.group_img)
       THEN /\ Respond(Response(400, ErrorBody("Missing group_img")))
            /\ pc' = "done"
            /\ nets' = nets
     ELSE /\ nets' = [n \in Nets |-> "loading"]
          /\ pc' = "awaitModels"
          /\ sent' = sent
  /\ UNCHANGED <<body, modelError, entries, labeledFaceDescriptors,
                 groupResponse, detections, groupImageError, fetchCalls, detectCalls>>

\* loadFromDisk of one model settles
ModelLoadReturns(n) ==
  /\ ~HandlerRunnable
  /\ nets[n] = "loading"
  /\ \E ok \in BOOLEAN :
       /\ nets' = [nets EXCEPT ![n] = IF ok THEN "loaded" ELSE "failed"]
       /\ modelError' = IF ~ok /\ modelError = NoError
                          THEN "cannot read weights of " \o n
                          ELSE modelError
  /\ UNCHANGED <<body, pc, entries, labeledFaceDescriptors, groupResponse,
                 detections, groupImageError, sent, fetchCalls, detectCalls>>

\* mutant of ModelLoadFailed: the catch block answers and does not return
ModelLoadFailedNoReturn ==
  /\ pc = "awaitModels"
  /\ ModelsRejected(nets)
  /\ Respond(Response(500, ErrorMessageBody("Failed to load face recognition models",
                                            modelError)))
  /\ entries' = [i \in 1..Len(body.dataset.a) |-> StartEntry(body.dataset.a[i])]
  /\ pc' = "awaitLabeled"
  /\ UNCHANGED <<body, nets, modelError, labeledFaceDescriptors, groupResponse,
                 detections, groupImageError, fetchCalls, detectCalls>>

\* catch (modelError)
ModelLoadFailed ==
  /\ pc = "awaitModels"
  /\ ModelsRejected(nets)
  /\ Respond(Response(500, ErrorMessageBody("Failed to load face recognition models",
                                            modelError)))
  /\ pc' = "done"
  /\ UNCHANGED <<body, nets, modelError, entries, labeledFaceDescriptors,
                 groupResponse, detections, groupImageError, fetchCalls, detectCalls>>

\* The loads resolved: the handler calls loadLabeledImages, whose map runs
\* every callback up to its first await (the fetch of its image).
StartLabeledImages ==
  /\ pc = "awaitModels"
  /\ ModelsLoaded(nets)
  /\ LET dataset == body.dataset.a
     IN /\ entries' = [i \in 1..Len(dataset) |-> StartEntry(dataset[i])]
        /\ fetchCalls' = fetchCalls
             + Cardinality({i \in 1..Len(dataset) :
                              StartEntry(dataset[i]).st = "fetching"})
  /\ pc' = "awaitLabeled"
  /\ UNCHANGED <<body, nets, modelError, labeledFaceDescriptors, groupResponse,
                 detections, groupImageError, sent, detectCalls>>

\* fetch(imglink) of entry i settles; a failure is caught by the callback
EntryFetchReturns(i) ==
  /\ ~HandlerRunnable
  /\ entries[i].st = "fetching"
  /\ \E outcome \in FetchOutcomes :
       entries' = [entries EXCEPT ![i] =
                     IF FetchOk(outcome) THEN Promise("decoding", Undef, NoOutcome)
                     ELSE Promise("fulfilled", Null, NoOutcome)]
  /\ UNCHANGED <<body, pc, nets, modelError, labeledFaceDescriptors, groupResponse,
                 detections, groupImageError, sent, fetchCalls, detectCalls>>

\* the image of entry i is decoded, and detectSingleFace is called on it
EntryDecodeReturns(i) ==
  /\ ~HandlerRunnable
  /\ entries[i].st = "decoding"
  /\ \E outcome \in DecodeOutcomes :
       IF outcome.kind = "image"
         THEN /\ entries' = [entries EXCEPT ![i] = Promise("detecting", Undef, NoOutcome)]
              /\ detectCalls' = detectCalls + 1
         ELSE /\ entries' = [entries EXCEPT ![i] = Promise("fulfilled", Null, NoOutcome)]
              /\ detectCalls' = detectCalls
  /\ UNCHANGED <<body, pc, nets, modelError, labeledFaceDescriptors, groupResponse,
                 detections, groupImageError, sent, fetchCalls>>

\* what the callback returns once the detection on its image settled
EntryResult(data, outcome) ==
  IF outcome.kind = "face"
    THEN LabeledFaceDescriptors(toString(GetProp(data, "id")), <<outcome.descriptor>>)
  ELSE Null

\* the detection on the image of entry i settles
EntryDetectReturns(i) ==
  /\ ~HandlerRunnable
  /\ entries[i].st = "detecting"
  /\ \E outcome \in SingleFaceOutcomes :
       entries' = [entries EXCEPT ![i] =
                     Promise("fulfilled", EntryResult(body.dataset.a[i], outcome),
                             outcome)]
  /\ UNCHANGED <<body, pc, nets, modelError, labeledFaceDescriptors, groupResponse,
                 detections, groupImageError, sent, fetchCalls, detectCalls>>

\* A callback threw before its try block: Promise.all rejects,
\* loadLabeledImages rejects, and the handler's outer catch answers.
LabeledImagesRejected ==
  /\ pc = "awaitLabeled"
  /\ AnyRejected(entries)
  /\ Respond(Response(500, ErrorMessageBody("Internal server error", TypeErrorMessage)))
  /\ pc' = "done"
  /\ UNCHANGED <<body, nets, modelError, entries, labeledFaceDescriptors,
                 groupResponse, detections, groupImageError, fetchCalls, detectCalls>>

\* Every callback returned: loadLabeledImages returns the descriptors that
\* are not null, and the handler goes on to the matcher and the group image.
LabeledImagesReturn ==
  /\ pc = "awaitLabeled"
  /\ ~AnyRejected(entries)
  /\ AllFulfilled(entries)
  /\ labeledFaceDescriptors' = Arr(validDescriptors(entries))
  /\ IF Len(validDescriptors(entries)) = 0
       THEN /\ Respond(Response(400, ErrorBody(
                 "No valid face descriptors could be generated from the dataset")))
            /\ pc' = "done"
            /\ fetchCalls' = fetchCalls
     ELSE \E constructed \in BOOLEAN :
            IF constructed
              THEN /\ pc' = "awaitGroupFetch"
                   /\ fetchCalls' = fetchCalls + 1
                   /\ sent' = sent
            ELSE /\ Respond(Response(500, ErrorMessageBody("Internal server error",
                                                           "FaceMatcher: invalid input")))
                 /\ pc' = "done"
                 /\ fetchCalls' = fetchCalls
  /\ UNCHANGED <<body, nets, modelError, entries, groupResponse, detections,
                 groupImageError, detectCalls>>

\* catch (groupImageError)
GroupImageError(message) ==
  /\ groupImageError' = message
  /\ Respond(Response(500, ErrorMessageBody("Failed to process group image", message)))
  /\ pc' = "done"

\* fetch(group_img) settles
GroupFetchReturns ==
  /\ pc = "awaitGroupFetch"
  /\ \E outcome \in FetchOutcomes :
       /\ groupResponse' = outcome
       /\ IF FetchOk(outcome)
            THEN pc' = "awaitGroupDecode" /\ UNCHANGED <<sent, groupImageError>>
          ELSE GroupImageError(FetchError(outcome))
  /\ UNCHANGED <<body, nets, modelError, entries, labeledFaceDescriptors,
                 detections, fetchCalls, detectCalls>>

\* the group image is decoded, and detectAllFaces is called on it
GroupDecodeReturns ==
  /\ pc = "awaitGroupDecode"
  /\ \E outcome \in DecodeOutcomes :
       IF outcome.kind = "image"
         THEN /\ pc' = "awaitGroupDetect"
              /\ detectCalls' = detectCalls + 1
              /\ UNCHANGED <<sent, groupImageError>>
       ELSE GroupImageError(outcome.message) /\ detectCalls' = detectCalls
  /\ UNCHANGED <<body, nets, modelError, entries, labeledFaceDescriptors,
                 groupResponse, detections, fetchCalls>>

\* mutant of results: a face that matches nobody is left out
RECURSIVE resultsKnownOnly(_, _)
resultsKnownOnly(labeled, ds) ==
  IF ds = <<>> THEN <<>>
  ELSE LET m == findBestMatch(labeled, Head(ds))
       IN IF m.label = "unknown" THEN resultsKnownOnly(labeled, Tail(ds))
          ELSE <<m>> \o resultsKnownOnly(labeled, Tail(ds))

\* detections.map((d) => faceMatcher.findBestMatch(d.descriptor))
results(labeled, ds) == [i \in 1..Len(ds) |-> findBestMatch(labeled, ds[i])]

\* The detection on the group image settles: every face is matched and the
\* matches are sent; a failure of the detection or of a match is caught.
GroupDetectReturns ==
  /\ pc = "awaitGroupDetect"
  /\ \E outcome \in AllFacesOutcomes :
       IF outcome.kind = "faces"
         THEN /\ detections' = Arr(outcome.detections)
              /\ \E matched \in BOOLEAN :
                   IF matched \/ Len(outcome.detections) = 0
                     THEN /\ Respond(Response(200,
                               SuccessBody(results(labeledFaceDescriptors.a,
                                                   outcome.detections))))
                          /\ pc' = "done"
                          /\ groupImageError' = groupImageError
                   ELSE GroupImageError("findBestMatch: dimension mismatch")
       ELSE /\ GroupImageError(outcome.message)
            /\ detections' = detections
  /\ UNCHANGED <<body, nets, modelError, entries, labeledFaceDescriptors,
                 groupResponse, fetchCalls, detectCalls>>

Next ==
  \/ HandleRequest
  \/ \E n \in Nets : ModelLoadReturns(n)
  \/ ModelLoadFailed
  \/ StartLabeledImages
  \/ \E i \in 1..Len(entries) : EntryFetchReturns(i)
  \/ \E i \in 1..Len(entries) : EntryDecodeReturns(i)
  \/ \E i \in 1..Len(entries) : EntryDetectReturns(i)
  \/ LabeledImagesRejected
  \/ LabeledImagesReturn
  \/ GroupFetchReturns
  \/ GroupDecodeReturns
  \/ GroupDetectReturns

Spec == Init /\ [][Next]_vars

\* Every external call eventually returns or fails, and the event loop runs
\* every continuation that is queued.
FairSpec == Spec /\ WF_vars(Next)

\* ------------------------------------------------------------ properties
\* the dataset entry behind entries[i]
Data(i) == body.dataset.a[i]

\* an entry that is no object with a truthy id and a truthy imglink
LacksIdOrLink(data) ==
  data.t # "object" \/ ~Truthy(data.id) \/ ~Truthy(data.imglink)

\* the promise of entry i has settled
Settled(i) == entries[i].st \in {"fulfilled", "rejected"}

\* the promise of entry i is pending at one of its awaits
Pending(i) == entries[i].st \in {"fetching", "decoding", "detecting"}

\* entry i gave a labeled descriptor
Yielded(i) == entries[i].st = "fulfilled" /\ entries[i].value # Null

\* C1: an entry whose id or imglink is missing or falsy, whatever its shape,
\* gives no labeled descriptor and does not fail the batch: its callback
\* returns null, it never rejects, and no "Internal server error" answers
\* the request on its account.
C1_InvalidEntrySkipped ==
  \A i \in 1..Len(entries) :
    LacksIdOrLink(Data(i)) =>
      /\ entries[i] = Promise("fulfilled", Null, NoOutcome)
      /\ sent # <<[status |-> 500,
                   body |-> [error |-> "Internal server error",
                             message |-> TypeErrorMessage]]>>

\* C2: every request gets exactly one response, with status 200, 400 or
\* 500, whatever the external calls settle to: never two, eventually one;
\* and a failure no inner catch handles (a callback of the batch that
\* threw) is answered 500 "Internal server error".
C2_ExactlyOneResponse ==
  /\ [](/\ Len(sent) <= 1
        /\ \A k \in 1..Len(sent) : sent[k].status \in {200, 400, 500})
  /\ []((pc = "done" /\ \E i \in 1..Len(entries) : entries[i].st = "rejected") =>
          sent = <<[status |-> 500,
                    body |-> [error |-> "Internal server error",
                              message |-> TypeErrorMessage]]>>)
  /\ <>(Len(sent) = 1)

\* C2 witness: a request answered 500 "Internal server error" because the
\* matcher could not be constructed.
C2_Witness ==
  /\ pc = "done"
  /\ sent = <<[status |-> 500,
               body |-> [error |-> "Internal server error",
                         message |-> "FaceMatcher: invalid input"]]>>

\* the matches the response must carry for the detected faces ds
ExpectedMatches(labeled, ds) ==
  [i \in 1..Len(ds) |->
     [label |-> findBestMatch(labeled, ds[i]).label,
      distance |-> findBestMatch(labeled, ds[i]).distance]]

\* C3: when the detector found N faces in the group image and every match
\* returned, the response is 200 with success true and exactly N matches,
\* the i-th being the label and distance the matcher gives for the i-th
\* face; the labeled set is then not empty.
C3_MatchesPerFace ==
  (pc = "done" /\ detections # Undef /\ groupImageError = NoError) =>
    /\ Len(labeledFaceDescriptors.a) > 0
    /\ Len(sent) = 1
    /\ sent[1].status = 200
    /\ sent[1].body.success = TRUE
    /\ Len(sent[1].body.matches) = Len(detections.a)
    /\ sent[1].body.matches = ExpectedMatches(labeledFaceDescriptors.a, detections.a)

\* C3 witness: two labeled descriptors and two faces found in the other
\* order, each matched to its own label, in the order of the faces.
C3_Witness ==
  /\ pc = "done"
  /\ detections = Arr(<<10, 0>>)
  /\ sent = <<[status |-> 200,
               body |-> [success |-> TRUE,
                         matches |-> <<[label |-> "7", distance |-> 0],
                                       [label |-> "alice", distance |-> 0]>>]]>>

\* C4: once the models are loaded and the request has ended, if no dataset
\* entry gave a descriptor (each was invalid, failed to load or showed no
\* face; or there is none), the response is 400 "No valid face descriptors
\* could be generated from the dataset".
C4_NoDescriptors ==
  ( /\ pc = "done"
    /\ \A n \in Nets : nets[n] = "loaded"
    /\ \A i \in 1..Len(entries) : Settled(i) /\ ~Yielded(i) ) =>
    sent = <<[status |-> 400,
              body |-> [error |->
                "No valid face descriptors could be generated from the dataset"]]>>

\* the text of an id of the model's datasets
ExpectedLabel(id) == IF id = Str("alice") THEN "alice" ELSE "7"

\* C5: when loadLabeledImages has returned and a face was detected for
\* every entry, it returned as many labeled descriptors as there are
\* entries: the i-th has the text of the i-th id as its label and the i-th
\* descriptor as its only vector, equal ids or not.
C5_CardinalityPreserved ==
  ( /\ labeledFaceDescriptors # Undef
    /\ \A i \in 1..Len(entries) : entries[i].detection.kind = "face" ) =>
    /\ Len(labeledFaceDescriptors.a) = Len(body.dataset.a)
    /\ \A i \in 1..Len(entries) :
         labeledFaceDescriptors.a[i] =
           [label |-> ExpectedLabel(Data(i).id),
            descriptors |-> <<entries[i].detection.descriptor>>]

\* C5 witness: two entries with the same id, a face detected for both, and
\* two labeled descriptors returned.
C5_Witness ==
  /\ labeledFaceDescriptors # Undef
  /\ Len(entries) = 2
  /\ \A i \in 1..2 : entries[i].detection.kind = "face"
  /\ Data(1).id = Data(2).id
  /\ entries[1].detection.descriptor # entries[2].detection.descriptor
  /\ Len(labeledFaceDescriptors.a) = 2

\* the one response a failure of the group image must give
GroupImageFailure(message) ==
  <<[status |-> 500,
     body |-> [error |-> "Failed to process group image", message |-> message]]>>

\* C6: a fetch of the group image that gives a non-ok status is answered
\* 500 "Failed to process group image" with the status text in the message;
\* so is a fetch that fails, and any failure of the decoding or detection,
\* each with its own message; the request has then ended with that one
\* response.
C6_GroupImageFailure ==
  /\ (groupResponse.kind = "response" /\ ~groupResponse.ok) =>
       /\ groupResponse.statusText = "Not Found"
       /\ sent = GroupImageFailure("Failed to fetch image: Not Found")
       /\ pc = "done"
  /\ groupResponse.kind = "error" =>
       sent = GroupImageFailure(groupResponse.message) /\ pc = "done"
  /\ groupImageError # NoError =>
       sent = GroupImageFailure(groupImageError) /\ pc = "done"

\* C6 witness: the fetch of the group image gave 404 and the request ended.
C6_Witness ==
  /\ groupResponse.kind = "response"
  /\ ~groupResponse.ok
  /\ pc = "done"
  /\ Len(sent) = 1

\* C7: a dataset that is absent or no array is answered 400 "Invalid dataset
\* format", with the value received echoed when there is one, whatever
\* group_img is; nothing else happens to the request.
C7_InvalidDatasetFormat ==
  (pc # "received" /\ body.dataset.t # "array") =>
    /\ pc = "done"
    /\ Len(sent) = 1
    /\ sent[1].status = 400
    /\ sent[1].body.error = "Invalid dataset format"
    /\ IF body.dataset = Undef THEN DOMAIN sent[1].body = {"error"}
       ELSE sent[1].body.received = body.dataset
    /\ \A n \in Nets : nets[n] = "idle"

\* C7 witness: a dataset that is a string, sent with a usable group_img, was
\* refused.
C7_Witness ==
  /\ pc = "done"
  /\ body.dataset = Str("people")
  /\ body.group_img = Str(URL)
  /\ Len(sent) = 1

\* C8: a dataset that is an array with a group_img that is absent or falsy
\* is answered 400 "Missing group_img".
C8_MissingGroupImg ==
  (pc # "received" /\ body.dataset.t = "array" /\ ~Truthy(body.group_img)) =>
    /\ pc = "done"
    /\ sent = <<[status |-> 400, body |-> [error |-> "Missing group_img"]]>>

\* C8 witness: an array of two entries with an empty group_img was refused.
C8_Witness ==
  /\ pc = "done"
  /\ body.dataset.t = "array"
  /\ Len(body.dataset.a) = 2
  /\ body.group_img = Str("")
  /\ Len(sent) = 1

\* C9 (state part): loadLabeledImages returns, and the handler goes on to
\* the matcher and the group image, only when every entry's callback has
\* returned; what it returns holds, in the order of the entries, the
\* descriptor of every entry that gave one.
C9_WaitsForAll ==
  (labeledFaceDescriptors # Undef
     \/ pc \in {"awaitGroupFetch", "awaitGroupDecode", "awaitGroupDetect"}) =>
    /\ \A i \in 1..Len(entries) : entries[i].st = "fulfilled"
    /\ Len(labeledFaceDescriptors.a) = Cardinality({i \in 1..Len(entries) : Yielded(i)})
    /\ \A i \in 1..Len(entries) :
         Yielded(i) =>
           labeledFaceDescriptors.a[Cardinality({j \in 1..i : Yielded(j)})]
             = entries[i].value

\* C9 (step part): an entry that is at an await never rejects, and the step
\* in which it fails (returns null) changes neither another entry nor the
\* handler: the batch is not aborted and no response is sent by that step.
C9_FailureIsolated ==
  \A i \in 1..Len(entries) :
    Pending(i) =>
      /\ entries'[i].st # "rejected"
      /\ entries'[i] = Promise("fulfilled", Null, entries'[i].detection) =>
           /\ \A j \in 1..Len(entries) : j # i => entries'[j] = entries[j]
           /\ pc' = pc
           /\ sent' = sent
           /\ labeledFaceDescriptors' = labeledFaceDescriptors

\* C9: the entries are a fan-out the handler waits on in full, under every
\* interleaving of their completions: one entry's failure leaves the others
\* running, every entry settles in the end, and the descriptors of those
\* that gave one are all in the result.
C9_FanOutWaitAll ==
  /\ []C9_WaitsForAll
  /\ [][C9_FailureIsolated]_vars
  /\ <>[](\A i \in 1..Len(entries) : Settled(i))

\* C9 witness: of two entries that were both fetched, the first failed
\* (its detection threw) and the second's descriptor is the result.
C9_Witness ==
  /\ Len(entries) = 2
  /\ entries[1].st = "fulfilled"
  /\ entries[1].value = Null
  /\ entries[1].detection.kind = "error"
  /\ Yielded(2)
  /\ labeledFaceDescriptors = Arr(<<entries[2].value>>)

\* C10: no image is fetched and no detection is called before all three
\* models are loaded; if a load failed, none ever is, the handler goes no
\* further, and the request ends with 500 "Failed to load face recognition
\* models".
C10_ModelsBeforeDetection ==
  /\ (fetchCalls > 0 \/ detectCalls > 0) => \A n \in Nets : nets[n] = "loaded"
  /\ (\E n \in Nets : nets[n] = "failed") =>
       /\ fetchCalls = 0
       /\ detectCalls = 0
       /\ entries = <<>>
       /\ pc \in {"awaitModels", "done"}
       /\ pc = "done" =>
            sent = <<[status |-> 500,
                      body |-> [error |-> "Failed to load face recognition models",
                                message |-> modelError]]>>

\* C10 witness: a request whose dataset has an entry to fetch ended because
\* a model failed to load while another was loaded.
C10_Witness ==
  /\ pc = "done"
  /\ \E n \in Nets : nets[n] = "failed"
  /\ \E n \in Nets : nets[n] = "loaded"
  /\ \E i \in 1..Len(body.dataset.a) : ~LacksIdOrLink(body.dataset.a[i])

====
